---- MODULE Spec2Model ----
(***************************************************************************)
(* Model of src/main.py: a Telegram bot that approves chat join requests.  *)
(*                                                                         *)
(* All coroutines run on one asyncio loop: a step of the model is the code *)
(* a coroutine runs between two suspension points (an await of a network   *)
(* call or of asyncio.sleep).  The event source (Telegram, through         *)
(* pyrogram) is the environment: every call to it is answered with one of  *)
(* the outcomes the code's except clauses distinguish.                     *)
(***************************************************************************)
EXTENDS Integers, FiniteSets, Sequences, TLC

(***************************************************************************)
(* Bounds of the model.                                                    *)
(***************************************************************************)
\* failing answers (FloodWait, RPCError, other exceptions) the event source
\* gives in one behaviour
MaxFaults == 2
\* events (join requests, commands, chat-member updates) the event source
\* delivers while the cleaner runs
MaxEvents == 1
\* events the event source delivers during the cleaner's initial sleep
MaxHandlerEvents == 3
\* sweep cycles the cleaner runs in one behaviour
MaxCycles == 2
\* approval calls counted per invocation (the count stops there)
MaxCounted == 3

\* chats the bot knows, with their kinds (dialog.chat.type)
Chats == {1, 2, 3}
ChatKind == [c \in Chats |-> CASE c = 1 -> "supergroup" [] c = 2 -> "private" [] OTHER -> "channel"]
\* chats that can hold join requests
JoinChats == {c \in Chats : ChatKind[c] \in {"channel", "supergroup"}}
\* chats matched by filters.group
GroupChats == {c \in Chats : ChatKind[c] \in {"group", "supergroup"}}
Users == {1, 2}
\* values of CHANNEL_ID and DEVELOPER_ID the configurations set
TargetChats == {1}
Developers == {1}
\* wait durations carried by FloodWait (fw.value), in seconds
FloodValues == {3}
\* None / unset configuration value (falsy in the code's tests)
None == 0

VARIABLES
    AUTO_APPROVE_CHAT_ID,   \* configured target chat, None when unset
    DEVELOPER_ID,           \* configured broadcaster, None when unset
    USER_DATABASE,          \* set of tracked user ids
    PENDING_REQUESTS,       \* keys (chat_id, user_id) of the ledger dict
    PROCESSED_CHATS,        \* chats marked as drained
    cleaner_task_started,   \* app._cleaner_task_started
    cleanerTasks,           \* number of asyncio.create_task(pending_requests_cleaner) calls
    main,                   \* position of start_bot_and_tasks
    pending,                \* event source: join requests pending, <<chat, user>>
    ap,                     \* approve_request_with_dm frames, one per calling task
    dr,                     \* clear_pending_requests frames, one per calling task
    sweep,                  \* pending_requests_cleaner frame
    bc,                     \* broadcast_handler frame
    faultsLeft,             \* failing answers the event source may still give
    eventsLeft              \* events the event source may still deliver

vars == <<AUTO_APPROVE_CHAT_ID, DEVELOPER_ID, USER_DATABASE, PENDING_REQUESTS,
          PROCESSED_CHATS, cleaner_task_started, cleanerTasks, main, pending,
          ap, dr, sweep, bc, faultsLeft, eventsLeft>>

config == <<AUTO_APPROVE_CHAT_ID, DEVELOPER_ID>>

\* tasks that call approve_request_with_dm: the sweep's drain, a handler's drain,
\* and the auto_approve / manual_approve_handler handlers
ApTasks == {"sweep", "drain", "handler"}
\* tasks that call clear_pending_requests: the sweep, and the handlers
\* (clear_command_handler, bot_added_to_chat, the startup cleanup)
DrTasks == {"sweep", "drain"}

ApIdle == [pc |-> "idle", trigger |-> "none", chat |-> 0, user |-> 0, calls |-> 0,
           wait |-> 0, added |-> FALSE, known |-> FALSE, dm |-> "none", dms |-> 0,
           outcome |-> "none", result |-> FALSE]

DrIdle == [pc |-> "idle", trigger |-> "none", chat |-> 0, todo |-> {}, approved_count |-> 0,
           successes |-> 0, wait |-> 0, result |-> 0, ended |-> "none"]

SweepIdle == [pc |-> "none", chats_to_check |-> {}, total_approved |-> 0, cycle |-> 0,
              dialogs |-> {}, queried |-> {}, alone |-> TRUE, fresh |-> TRUE,
              failed |-> {}, after |-> {}]

BcIdle == [pc |-> "idle", caller |-> 0, total |-> 0, todo |-> {}, uid |-> 0, sent |-> 0,
           failed |-> 0, K |-> 0, M |-> 0, clean |-> TRUE, quiet |-> TRUE,
           last |-> <<0, "none">>, snapshot |-> {}, attempts |-> [u \in Users |-> 0]]

(***************************************************************************)
(* Initial state: the module-level assignments of main.py, for every       *)
(* configuration the environment variables can give.                       *)
(***************************************************************************)
InitWith(events) ==
    /\ AUTO_APPROVE_CHAT_ID \in {None} \cup TargetChats
    /\ DEVELOPER_ID \in {None} \cup Developers
    /\ USER_DATABASE = {}
    /\ PENDING_REQUESTS = {}
    /\ PROCESSED_CHATS = {}
    /\ cleaner_task_started = FALSE
    /\ cleanerTasks = 0
    /\ main = "boot"
    /\ pending = {}
    /\ ap = [t \in ApTasks |-> ApIdle]
    /\ dr = [t \in DrTasks |-> DrIdle]
    /\ sweep = SweepIdle
    /\ bc = BcIdle
    /\ faultsLeft = MaxFaults
    /\ eventsLeft = events

Init == InitWith(MaxEvents)

\* a fresh approve_request_with_dm(client, chat_id, user_id, ...) frame
ApEnter(trigger, chat, user) ==
    [ApIdle EXCEPT !.pc = "call", !.trigger = trigger, !.chat = chat, !.user = user]

\* a fresh clear_pending_requests(client, chat_id, ...) frame
DrEnter(trigger, chat) ==
    [DrIdle EXCEPT !.pc = "entry", !.trigger = trigger, !.chat = chat]

\* history kept for a broadcast: USER_DATABASE.add(user) by another task changed
\* the set between the snapshot and the return of the handler
BcNoteAdd(user) ==
    IF bc.pc \in {"send", "retry_sleep", "done"} /\ user \notin USER_DATABASE
    THEN [bc EXCEPT !.quiet = FALSE] ELSE bc

(***************************************************************************)
(* approve_request_with_dm and send_welcome_dm                             *)
(***************************************************************************)
\* the value approve_request_with_dm returns once the approval call succeeded,
\* given what send_welcome_dm returned (the mutant returns the DM's result)
ApproveReturnDm(dmResult) == dmResult
ApproveReturn(dmResult) == TRUE

\* USER_DATABASE after send_welcome_dm ended with `outcome` for `user`
\* (the mutant prunes an unreachable user, as the broadcast does)
DbAfterDmPrune(db, user, outcome) == IF outcome = "unreachable" THEN db \ {user} ELSE db
DbAfterDm(db, user, outcome) == db

\* USER_DATABASE.add(user_id) on a set (the mutant appends as to a list: a user
\* already present gets a second entry, written -user_id)
DbAddDup(db, user) == IF user \in db THEN db \cup {0 - user} ELSE db \cup {user}
DbAdd(db, user) == db \cup {user}

\* where approve_request_with_dm goes when the approval call raises an RPCError
\* because the request is no longer pending: except RPCError, return False
\* (the mutant goes on to the welcome notification)
AfterGoneNotify == "dm"
AfterGone == "done"

\* history kept for an invocation: the number of approval calls made so far
CountCall(n) == IF n < MaxCounted THEN n + 1 ELSE n

\* await client.approve_chat_join_request(chat_id, user_id), and what the
\* try/except around it does with the answer
approve_call(t) ==
    /\ ap[t].pc = "call"
    /\ \/ \* success: the request is approved, USER_DATABASE.add(user_id)
          /\ <<ap[t].chat, ap[t].user>> \in pending
          /\ pending' = pending \ {<<ap[t].chat, ap[t].user>>}
          /\ USER_DATABASE' = DbAdd(USER_DATABASE, ap[t].user)
          /\ bc' = BcNoteAdd(ap[t].user)
          /\ ap' = [ap EXCEPT ![t].pc = "dm", ![t].calls = CountCall(@), ![t].added = TRUE,
                              ![t].known = (ap[t].user \in USER_DATABASE)]
          /\ UNCHANGED faultsLeft
       \/ \* except FloodWait as fw
          /\ faultsLeft > 0
          /\ faultsLeft' = faultsLeft - 1
          /\ \E d \in FloodValues :
                ap' = [ap EXCEPT ![t].pc = "flood_sleep", ![t].calls = CountCall(@), ![t].wait = d]
          /\ UNCHANGED <<pending, USER_DATABASE, bc>>
       \/ \* except RPCError (the bot lacks admin rights), except Exception
          /\ faultsLeft > 0
          /\ faultsLeft' = faultsLeft - 1
          /\ \E o \in {"denied", "error"} :
                ap' = [ap EXCEPT ![t].pc = "done", ![t].calls = CountCall(@),
                                 ![t].outcome = o, ![t].result = FALSE]
          /\ UNCHANGED <<pending, USER_DATABASE, bc>>
       \/ \* except RPCError: no such request is pending (approved or withdrawn already)
          /\ <<ap[t].chat, ap[t].user>> \notin pending
          /\ ap' = [ap EXCEPT ![t].pc = AfterGone, ![t].calls = CountCall(@),
                              ![t].outcome = "gone", ![t].result = FALSE]
          /\ UNCHANGED <<pending, USER_DATABASE, faultsLeft, bc>>
    /\ UNCHANGED <<config, PENDING_REQUESTS, PROCESSED_CHATS, cleaner_task_started,
                   cleanerTasks, main, dr, sweep, eventsLeft>>

\* await asyncio.sleep(fw.value); return await approve_request_with_dm(...)
approve_flood_retry(t) ==
    /\ ap[t].pc = "flood_sleep"
    /\ ap' = [ap EXCEPT ![t].pc = "call", ![t].wait = 0]
    /\ UNCHANGED <<config, USER_DATABASE, PENDING_REQUESTS, PROCESSED_CHATS,
                   cleaner_task_started, cleanerTasks, main, pending, dr, sweep, bc,
                   faultsLeft, eventsLeft>>

\* await send_welcome_dm(...): one client.send_message, every exception caught;
\* then approve_request_with_dm returns
send_welcome_dm(t) ==
    /\ ap[t].pc = "dm"
    /\ \E o \in {"ok", "unreachable", "flood", "error"} :
          /\ o # "ok" => faultsLeft > 0
          /\ faultsLeft' = IF o # "ok" THEN faultsLeft - 1 ELSE faultsLeft
          /\ USER_DATABASE' = DbAfterDm(USER_DATABASE, ap[t].user, o)
          /\ ap' = [ap EXCEPT ![t].pc = "done", ![t].dm = o, ![t].dms = @ + 1,
                              ![t].outcome = "approved",
                              ![t].result = ApproveReturn(o = "ok")]
    /\ UNCHANGED <<config, PENDING_REQUESTS, PROCESSED_CHATS, cleaner_task_started,
                   cleanerTasks, main, pending, dr, sweep, bc, eventsLeft>>

(***************************************************************************)
(* clear_pending_requests                                                  *)
(***************************************************************************)
\* entry of clear_pending_requests: the PROCESSED_CHATS guard, approved_count = 0
\* (client.get_chat, when no title is given, only sets the local chat_title)
clear_pending_requests(t) ==
    /\ dr[t].pc = "entry"
    /\ IF dr[t].chat \in PROCESSED_CHATS
       THEN dr' = [dr EXCEPT ![t].pc = "done", ![t].result = 0, ![t].ended = "skipped"]
       ELSE dr' = [dr EXCEPT ![t].pc = "enum", ![t].approved_count = 0]
    /\ UNCHANGED <<config, USER_DATABASE, PENDING_REQUESTS, PROCESSED_CHATS,
                   cleaner_task_started, cleanerTasks, main, pending, ap, sweep, bc,
                   faultsLeft, eventsLeft>>

\* where clear_pending_requests goes from except RPCError / except Exception:
\* it returns approved_count to its caller (the mutant lets the error propagate)
AfterDrainErrorRaise == "raised"
AfterDrainError == "done"

\* the first request of client.get_chat_join_requests(chat_id, limit=200)
get_chat_join_requests(t) ==
    /\ dr[t].pc = "enum"
    /\ sweep' = IF t = "sweep"
                THEN [sweep EXCEPT !.queried = @ \cup {dr[t].chat},
                                   !.after = IF sweep.failed # {}
                                             THEN @ \cup {dr[t].chat} ELSE @]
                ELSE sweep
    /\ \/ \* the pending requests of the chat are listed
          /\ dr' = [dr EXCEPT ![t].pc = "next",
                              ![t].todo = {u \in Users : <<dr[t].chat, u>> \in pending}]
          /\ UNCHANGED faultsLeft
       \/ \* except FloodWait as fw
          /\ faultsLeft > 0
          /\ faultsLeft' = faultsLeft - 1
          /\ \E d \in FloodValues : dr' = [dr EXCEPT ![t].pc = "flood_sleep", ![t].wait = d]
       \/ \* except RPCError, except Exception: return approved_count
          /\ faultsLeft > 0
          /\ faultsLeft' = faultsLeft - 1
          /\ dr' = [dr EXCEPT ![t].pc = AfterDrainError, ![t].ended = "error",
                              ![t].result = dr[t].approved_count]
    /\ UNCHANGED <<config, USER_DATABASE, PENDING_REQUESTS, PROCESSED_CHATS,
                   cleaner_task_started, cleanerTasks, main, pending, ap, bc,
                   eventsLeft>>

\* one iteration of the async for: the next request goes to approve_request_with_dm;
\* the end of the listing marks the chat processed; the listing may also raise
clear_next(t) ==
    /\ dr[t].pc = "next"
    /\ \/ /\ dr[t].todo = {}
          /\ PROCESSED_CHATS' = PROCESSED_CHATS \cup {dr[t].chat}
          /\ dr' = [dr EXCEPT ![t].pc = "done", ![t].ended = "listed",
                              ![t].result = dr[t].approved_count]
          /\ UNCHANGED <<ap, faultsLeft>>
       \/ /\ \E u \in dr[t].todo :
                /\ dr' = [dr EXCEPT ![t].pc = "approving", ![t].todo = @ \ {u}]
                /\ ap' = [ap EXCEPT ![t] = ApEnter(dr[t].trigger, dr[t].chat, u)]
          /\ UNCHANGED <<PROCESSED_CHATS, faultsLeft>>
       \/ \* except FloodWait as fw, raised while listing further requests
          /\ dr[t].todo # {}
          /\ faultsLeft > 0
          /\ faultsLeft' = faultsLeft - 1
          /\ \E d \in FloodValues :
                dr' = [dr EXCEPT ![t].pc = "flood_sleep", ![t].wait = d, ![t].todo = {}]
          /\ UNCHANGED <<PROCESSED_CHATS, ap>>
       \/ \* except RPCError, except Exception, raised while listing further requests
          /\ dr[t].todo # {}
          /\ faultsLeft > 0
          /\ faultsLeft' = faultsLeft - 1
          /\ dr' = [dr EXCEPT ![t].pc = AfterDrainError, ![t].todo = {},
                              ![t].ended = "error",
                              ![t].result = dr[t].approved_count]
          /\ UNCHANGED <<PROCESSED_CHATS, ap>>
    /\ UNCHANGED <<config, USER_DATABASE, PENDING_REQUESTS, cleaner_task_started,
                   cleanerTasks, main, pending, sweep, bc, eventsLeft>>

\* success = await approve_request_with_dm(...); if success: approved_count += 1;
\* await asyncio.sleep(0.1)
clear_collect(t) ==
    /\ dr[t].pc = "approving"
    /\ ap[t].pc = "done"
    /\ dr' = [dr EXCEPT ![t].pc = "next",
                        ![t].approved_count = IF ap[t].result THEN @ + 1 ELSE @,
                        ![t].successes = IF ap[t].added THEN @ + 1 ELSE @]
    /\ ap' = [ap EXCEPT ![t] = ApIdle]
    /\ UNCHANGED <<config, USER_DATABASE, PENDING_REQUESTS, PROCESSED_CHATS,
                   cleaner_task_started, cleanerTasks, main, pending, sweep, bc,
                   faultsLeft, eventsLeft>>

\* await asyncio.sleep(fw.value); return await clear_pending_requests(...)
clear_flood_retry(t) ==
    /\ dr[t].pc = "flood_sleep"
    /\ dr' = [dr EXCEPT ![t].pc = "entry", ![t].wait = 0]
    /\ UNCHANGED <<config, USER_DATABASE, PENDING_REQUESTS, PROCESSED_CHATS,
                   cleaner_task_started, cleanerTasks, main, pending, ap, sweep, bc,
                   faultsLeft, eventsLeft>>

(***************************************************************************)
(* pending_requests_cleaner (the Reconciliation Sweep)                     *)
(***************************************************************************)
\* chats_to_check of one cycle: the configured chat, or the channels and
\* supergroups among the dialogs client.get_dialogs yielded
\* (the mutant ignores the configured chat)
CandidateChatsAll(target, dialogs) ==
    {c \in dialogs : ChatKind[c] \in {"channel", "supergroup"}}
CandidateChats(target, dialogs) ==
    IF target # None
    THEN {target}
    ELSE {c \in dialogs : ChatKind[c] \in {"channel", "supergroup"}}

\* PROCESSED_CHATS after the loop over chats_to_check: PROCESSED_CHATS.clear()
\* (the mutant keeps the marks)
MarksAfterCycleKept(marks) == marks
MarksAfterCycle(marks) == {}

\* where the cleaner goes once a cycle's chats are done: asyncio.sleep(300)
\* (the mutant starts the next cycle at once)
AfterCycleNoSleep == "cycle_start"
AfterCycle == "sleep"

\* await asyncio.sleep(10)
cleaner_initial_sleep ==
    /\ sweep.pc = "initial_sleep"
    /\ sweep' = [sweep EXCEPT !.pc = "cycle_start"]
    /\ UNCHANGED <<config, USER_DATABASE, PENDING_REQUESTS, PROCESSED_CHATS,
                   cleaner_task_started, cleanerTasks, main, pending, ap, dr, bc,
                   faultsLeft, eventsLeft>>

\* top of the while loop: chats_to_check is built; without a configured chat
\* get_dialogs yields every dialog, or some of them and then raises (the
\* exception is caught, the chats kept); ds are the dialogs the bot would be given
cleaner_cycle_start ==
    /\ sweep.pc = "cycle_start"
    /\ sweep.cycle < MaxCycles
    /\ \E ds \in SUBSET Chats :
          /\ AUTO_APPROVE_CHAT_ID # None => ds = Chats
          /\ ds # Chats => faultsLeft > 0
          /\ faultsLeft' = IF ds # Chats THEN faultsLeft - 1 ELSE faultsLeft
          /\ sweep' = [sweep EXCEPT !.pc = "loop",
                                 !.chats_to_check = CandidateChats(AUTO_APPROVE_CHAT_ID, ds),
                                 !.dialogs = IF AUTO_APPROVE_CHAT_ID # None THEN {} ELSE ds,
                                 !.queried = {},
                                 !.alone = (dr["drain"].pc = "idle"),
                                 !.fresh = (PROCESSED_CHATS = {}),
                                 !.failed = {},
                                 !.after = {},
                                 !.total_approved = 0,
                                 !.cycle = @ + 1]
    /\ UNCHANGED <<config, USER_DATABASE, PENDING_REQUESTS, PROCESSED_CHATS,
                   cleaner_task_started, cleanerTasks, main, pending, ap, dr, bc,
                   eventsLeft>>

\* for chat_id in chats_to_check: skip a processed chat, else call
\* clear_pending_requests; after the loop PROCESSED_CHATS.clear() and sleep
cleaner_loop ==
    /\ sweep.pc = "loop"
    /\ \/ /\ sweep.chats_to_check = {}
          /\ PROCESSED_CHATS' = MarksAfterCycle(PROCESSED_CHATS)
          /\ sweep' = [sweep EXCEPT !.pc = AfterCycle]
          /\ UNCHANGED dr
       \/ \E c \in sweep.chats_to_check :
             /\ c \in PROCESSED_CHATS
             /\ sweep' = [sweep EXCEPT !.chats_to_check = @ \ {c}]
             /\ UNCHANGED <<dr, PROCESSED_CHATS>>
       \/ \E c \in sweep.chats_to_check :
             /\ c \notin PROCESSED_CHATS
             /\ sweep' = [sweep EXCEPT !.pc = "draining", !.chats_to_check = @ \ {c}]
             /\ dr' = [dr EXCEPT !["sweep"] = DrEnter("sweep", c)]
             /\ UNCHANGED PROCESSED_CHATS
    /\ UNCHANGED <<config, USER_DATABASE, PENDING_REQUESTS, cleaner_task_started,
                   cleanerTasks, main, pending, ap, bc, faultsLeft, eventsLeft>>

\* approved = await clear_pending_requests(client, chat_id); total_approved += approved
cleaner_collect ==
    /\ sweep.pc = "draining"
    /\ dr["sweep"].pc = "done"
    /\ sweep' = [sweep EXCEPT !.pc = "loop", !.total_approved = @ + dr["sweep"].result,
                           !.failed = IF dr["sweep"].ended = "error"
                                      THEN @ \cup {dr["sweep"].chat} ELSE @]
    /\ dr' = [dr EXCEPT !["sweep"] = DrIdle]
    /\ UNCHANGED <<config, USER_DATABASE, PENDING_REQUESTS, PROCESSED_CHATS,
                   cleaner_task_started, cleanerTasks, main, pending, ap, bc,
                   faultsLeft, eventsLeft>>

\* await asyncio.sleep(300) elapses
cleaner_sleep ==
    /\ sweep.pc = "sleep"
    /\ sweep' = [sweep EXCEPT !.pc = "cycle_start"]
    /\ UNCHANGED <<config, USER_DATABASE, PENDING_REQUESTS, PROCESSED_CHATS,
                   cleaner_task_started, cleanerTasks, main, pending, ap, dr, bc,
                   faultsLeft, eventsLeft>>

(***************************************************************************)
(* start_bot_and_tasks                                                     *)
(***************************************************************************)
\* await app.start(): from here on the handlers receive events
app_start ==
    /\ main = "boot"
    /\ main' = "tasks"
    /\ UNCHANGED <<config, USER_DATABASE, PENDING_REQUESTS, PROCESSED_CHATS,
                   cleaner_task_started, cleanerTasks, pending, ap, dr, sweep, bc,
                   faultsLeft, eventsLeft>>

\* steps 3 and 4: create the cleaner task unless the flag is set, then the
\* initial cleanup of the configured chat, then app.idle()
start_bot_and_tasks ==
    /\ main = "tasks"
    /\ main' = "idle"
    /\ IF ~cleaner_task_started
       THEN /\ cleanerTasks' = cleanerTasks + 1
            /\ sweep' = [sweep EXCEPT !.pc = "initial_sleep"]
            /\ cleaner_task_started' = TRUE
       ELSE UNCHANGED <<cleanerTasks, sweep, cleaner_task_started>>
    /\ IF AUTO_APPROVE_CHAT_ID # None
       THEN /\ dr["drain"].pc = "idle"
            /\ dr' = [dr EXCEPT !["drain"] = DrEnter("startup", AUTO_APPROVE_CHAT_ID)]
       ELSE UNCHANGED dr
    /\ UNCHANGED <<config, USER_DATABASE, PENDING_REQUESTS, PROCESSED_CHATS, pending,
                   ap, bc, faultsLeft, eventsLeft>>

(***************************************************************************)
(* Event handlers                                                          *)
(***************************************************************************)
\* history kept for a sweep cycle: a handler called clear_pending_requests
\* while the cycle was in progress
SweepNoteDrain ==
    IF sweep.pc \in {"loop", "draining"} THEN [sweep EXCEPT !.alone = FALSE] ELSE sweep

\* a user sends a join request and no event reaches a handler (the request
\* is left for the sweep)
join_request_missed(c, u) ==
    /\ eventsLeft > 0
    /\ <<c, u>> \notin pending
    /\ pending' = pending \cup {<<c, u>>}
    /\ eventsLeft' = eventsLeft - 1
    /\ UNCHANGED <<config, USER_DATABASE, PENDING_REQUESTS, PROCESSED_CHATS,
                   cleaner_task_started, cleanerTasks, main, ap, dr, sweep, bc,
                   faultsLeft>>

\* the target-chat filter of auto_approve: TRUE when the request is ignored
IgnoredByFilter(target, chat) == target # None /\ chat # target

\* @app.on_chat_join_request(): a user sends a join request and the event is delivered
auto_approve(c, u) ==
    /\ main # "boot"
    /\ eventsLeft > 0
    /\ ap["handler"].pc = "idle"
    /\ <<c, u>> \notin pending
    /\ pending' = pending \cup {<<c, u>>}
    /\ eventsLeft' = eventsLeft - 1
    /\ IF IgnoredByFilter(AUTO_APPROVE_CHAT_ID, c)
       THEN UNCHANGED ap
       ELSE ap' = [ap EXCEPT !["handler"] = ApEnter("auto_approve", c, u)]
    /\ UNCHANGED <<config, USER_DATABASE, PENDING_REQUESTS, PROCESSED_CHATS,
                   cleaner_task_started, cleanerTasks, main, dr, sweep, bc,
                   faultsLeft>>

\* /approve in a group: admins only, the target taken from the reply or the argument
manual_approve_handler(c, u, admin) ==
    /\ main # "boot"
    /\ eventsLeft > 0
    /\ ap["handler"].pc = "idle"
    /\ eventsLeft' = eventsLeft - 1
    /\ IF admin
       THEN ap' = [ap EXCEPT !["handler"] = ApEnter("manual_approve", c, u)]
       ELSE UNCHANGED ap
    /\ UNCHANGED <<config, USER_DATABASE, PENDING_REQUESTS, PROCESSED_CHATS,
                   cleaner_task_started, cleanerTasks, main, pending, dr, sweep, bc,
                   faultsLeft>>

\* auto_approve / manual_approve_handler take the result and return
handler_return ==
    /\ ap["handler"].pc = "done"
    /\ ap' = [ap EXCEPT !["handler"] = ApIdle]
    /\ UNCHANGED <<config, USER_DATABASE, PENDING_REQUESTS, PROCESSED_CHATS,
                   cleaner_task_started, cleanerTasks, main, pending, dr, sweep, bc,
                   faultsLeft, eventsLeft>>

\* /clear in a group: admins only
clear_command_handler(c, admin) ==
    /\ main # "boot"
    /\ eventsLeft > 0
    /\ dr["drain"].pc = "idle"
    /\ eventsLeft' = eventsLeft - 1
    /\ IF admin
       THEN /\ dr' = [dr EXCEPT !["drain"] = DrEnter("clear", c)]
            /\ sweep' = SweepNoteDrain
       ELSE UNCHANGED <<dr, sweep>>
    /\ UNCHANGED <<config, USER_DATABASE, PENDING_REQUESTS, PROCESSED_CHATS,
                   cleaner_task_started, cleanerTasks, main, pending, ap, bc,
                   faultsLeft>>

\* @app.on_chat_member_updated(): the bot was added to chat c as member or administrator
bot_added_to_chat(c) ==
    /\ main # "boot"
    /\ eventsLeft > 0
    /\ dr["drain"].pc = "idle"
    /\ eventsLeft' = eventsLeft - 1
    /\ dr' = [dr EXCEPT !["drain"] = DrEnter("bot_added", c)]
    /\ sweep' = SweepNoteDrain
    /\ UNCHANGED <<config, USER_DATABASE, PENDING_REQUESTS, PROCESSED_CHATS,
                   cleaner_task_started, cleanerTasks, main, pending, ap, bc,
                   faultsLeft>>

\* the caller of clear_pending_requests (a handler or the startup) takes the count
drain_return ==
    /\ dr["drain"].pc = "done"
    /\ dr' = [dr EXCEPT !["drain"] = DrIdle]
    /\ UNCHANGED <<config, USER_DATABASE, PENDING_REQUESTS, PROCESSED_CHATS,
                   cleaner_task_started, cleanerTasks, main, pending, ap, sweep, bc,
                   faultsLeft, eventsLeft>>

\* /start in a private chat: USER_DATABASE.add(user.id); a failing reply is swallowed
start_handler(u) ==
    /\ main # "boot"
    /\ eventsLeft > 0
    /\ eventsLeft' = eventsLeft - 1
    /\ USER_DATABASE' = DbAdd(USER_DATABASE, u)
    /\ bc' = BcNoteAdd(u)
    /\ UNCHANGED <<config, PENDING_REQUESTS, PROCESSED_CHATS, cleaner_task_started,
                   cleanerTasks, main, pending, ap, dr, sweep, faultsLeft>>

(***************************************************************************)
(* broadcast_handler                                                       *)
(***************************************************************************)
\* the two identity tests at the top of broadcast_handler
\* (the mutant leaves out the comparison with the caller)
BroadcastAllowedAny(developer, caller) == developer # None
BroadcastAllowed(developer, caller) == developer # None /\ caller = developer

\* the outcomes of the first send after which USER_DATABASE.discard(uid) runs:
\* except (UserIsBlocked, UserNotParticipant, PeerIdInvalid, RPCError)
BroadcastPrunes(outcome) == outcome \in {"unreachable", "rpc"}

\* the users the for loop can take next: the rest of list(USER_DATABASE), the
\* copy made when the loop began (the mutant iterates the live set)
BroadcastPoolLive(todo, db, attempts) == {u \in db \cap Users : attempts[u] = 0}
BroadcastPool(todo, db, attempts) == todo

\* /broadcast in a private chat, up to "Broadcast starting"
broadcast_handler(caller, hasReply) ==
    /\ main # "boot"
    /\ eventsLeft > 0
    /\ bc.pc = "idle"
    /\ eventsLeft' = eventsLeft - 1
    /\ IF BroadcastAllowed(DEVELOPER_ID, caller) /\ hasReply
       THEN bc' = [BcIdle EXCEPT !.pc = "announce", !.caller = caller,
                                 !.total = Cardinality(USER_DATABASE)]
       ELSE bc' = [BcIdle EXCEPT !.pc = "rejected", !.caller = caller]
    /\ UNCHANGED <<config, USER_DATABASE, PENDING_REQUESTS, PROCESSED_CHATS,
                   cleaner_task_started, cleanerTasks, main, pending, ap, dr, sweep,
                   faultsLeft>>

\* for uid in list(USER_DATABASE): the snapshot is taken
broadcast_begin ==
    /\ bc.pc = "announce"
    /\ bc' = [bc EXCEPT !.pc = "send", !.todo = USER_DATABASE,
                        !.snapshot = USER_DATABASE,
                        !.K = Cardinality(USER_DATABASE)]
    /\ UNCHANGED <<config, USER_DATABASE, PENDING_REQUESTS, PROCESSED_CHATS,
                   cleaner_task_started, cleanerTasks, main, pending, ap, dr, sweep,
                   faultsLeft, eventsLeft>>

\* one iteration: await broadcast_message.copy(uid) and the except clauses
broadcast_send ==
    /\ bc.pc = "send"
    /\ \/ /\ BroadcastPool(bc.todo, USER_DATABASE, bc.attempts) = {}
          /\ bc' = [bc EXCEPT !.pc = "done"]
          /\ UNCHANGED <<USER_DATABASE, faultsLeft>>
       \/ \E uid \in BroadcastPool(bc.todo, USER_DATABASE, bc.attempts) :
             \/ /\ bc' = [bc EXCEPT !.todo = @ \ {uid}, !.sent = @ + 1,
                                    !.attempts[uid] = @ + 1,
                                    !.last = <<uid, "ok">>]
                /\ UNCHANGED <<USER_DATABASE, faultsLeft>>
             \/ /\ faultsLeft > 0
                /\ faultsLeft' = faultsLeft - 1
                /\ bc' = [bc EXCEPT !.pc = "retry_sleep", !.todo = @ \ {uid}, !.uid = uid,
                                    !.attempts[uid] = @ + 1,
                                    !.last = <<uid, "flood">>]
                /\ UNCHANGED USER_DATABASE
             \/ \E o \in {"unreachable", "rpc", "error"} :
                   /\ faultsLeft > 0
                   /\ faultsLeft' = faultsLeft - 1
                   /\ USER_DATABASE' = IF BroadcastPrunes(o)
                                       THEN USER_DATABASE \ {uid} ELSE USER_DATABASE
                   /\ bc' = [bc EXCEPT !.todo = @ \ {uid}, !.failed = @ + 1,
                                       !.attempts[uid] = @ + 1,
                                       !.M = IF o = "unreachable" THEN @ + 1 ELSE @,
                                       !.clean = IF o = "unreachable" THEN @ ELSE FALSE,
                                       !.last = <<uid, o>>]
    /\ UNCHANGED <<config, PENDING_REQUESTS, PROCESSED_CHATS, cleaner_task_started,
                   cleanerTasks, main, pending, ap, dr, sweep, eventsLeft>>

\* await asyncio.sleep(fw.value), then the second broadcast_message.copy(uid)
broadcast_retry ==
    /\ bc.pc = "retry_sleep"
    /\ \E o \in {"ok", "flood", "unreachable", "rpc", "error"} :
          /\ o # "ok" => faultsLeft > 0
          /\ faultsLeft' = IF o # "ok" THEN faultsLeft - 1 ELSE faultsLeft
          /\ bc' = [bc EXCEPT !.pc = "send", !.uid = 0,
                              !.attempts[bc.uid] = @ + 1,
                              !.sent = IF o = "ok" THEN @ + 1 ELSE @,
                              !.failed = IF o = "ok" THEN @ ELSE @ + 1,
                              !.M = IF o = "unreachable" THEN @ + 1 ELSE @,
                              !.clean = IF o \in {"ok", "unreachable"} THEN @ ELSE FALSE,
                              !.last = <<bc.uid, o>>]
    /\ UNCHANGED <<config, USER_DATABASE, PENDING_REQUESTS, PROCESSED_CHATS,
                   cleaner_task_started, cleanerTasks, main, pending, ap, dr, sweep,
                   eventsLeft>>

\* "Broadcast complete" or a rejection has been replied; the handler returns
broadcast_return ==
    /\ bc.pc \in {"done", "rejected"}
    /\ bc' = BcIdle
    /\ UNCHANGED <<config, USER_DATABASE, PENDING_REQUESTS, PROCESSED_CHATS,
                   cleaner_task_started, cleanerTasks, main, pending, ap, dr, sweep,
                   faultsLeft, eventsLeft>>

(***************************************************************************)
(* The program                                                             *)
(***************************************************************************)
\* steps of the coroutines that approve requests
ApprovalSteps ==
    \/ \E t \in ApTasks : approve_call(t)
    \/ \E t \in ApTasks : approve_flood_retry(t)
    \/ \E t \in ApTasks : send_welcome_dm(t)
    \/ \E t \in DrTasks : clear_pending_requests(t)
    \/ \E t \in DrTasks : get_chat_join_requests(t)
    \/ \E t \in DrTasks : clear_next(t)
    \/ \E t \in DrTasks : clear_collect(t)
    \/ \E t \in DrTasks : clear_flood_retry(t)
    \/ handler_return
    \/ drain_return

\* steps of the cleaner task
CleanerSteps ==
    \/ cleaner_initial_sleep
    \/ cleaner_cycle_start
    \/ cleaner_loop
    \/ cleaner_collect
    \/ cleaner_sleep

\* join requests, and the events that start an approval or a drain
RequestEvents ==
    \/ \E c \in JoinChats, u \in Users : join_request_missed(c, u)
    \/ \E c \in JoinChats, u \in Users : auto_approve(c, u)
    \/ \E c \in GroupChats, u \in Users, admin \in BOOLEAN : manual_approve_handler(c, u, admin)
    \/ \E c \in GroupChats, admin \in BOOLEAN : clear_command_handler(c, admin)
    \/ \E c \in JoinChats : bot_added_to_chat(c)

\* /start and /broadcast
BroadcastSteps ==
    \/ \E u \in Users : start_handler(u)
    \/ \E caller \in Users, hasReply \in BOOLEAN : broadcast_handler(caller, hasReply)
    \/ broadcast_begin
    \/ broadcast_send
    \/ broadcast_retry
    \/ broadcast_return

Next ==
    \/ app_start
    \/ start_bot_and_tasks
    \/ ApprovalSteps
    \/ CleanerSteps
    \/ RequestEvents
    \/ BroadcastSteps

Spec == Init /\ [][Next]_vars

\* the behaviours in which nobody sends /start or /broadcast
NextCleaner ==
    \/ app_start
    \/ start_bot_and_tasks
    \/ ApprovalSteps
    \/ CleanerSteps
    \/ RequestEvents

SpecCleaner == Init /\ [][NextCleaner]_vars

\* the steps of one approve_request_with_dm task, and of one clear_pending_requests task
ApSteps(t) == approve_call(t) \/ approve_flood_retry(t) \/ send_welcome_dm(t)
DrSteps(t) ==
    \/ clear_pending_requests(t)
    \/ get_chat_join_requests(t)
    \/ clear_next(t)
    \/ clear_collect(t)
    \/ clear_flood_retry(t)

\* the asyncio loop resumes every coroutine whose await has completed, and the
\* event source answers every call
FairTasks ==
    /\ WF_vars(app_start \/ start_bot_and_tasks)
    /\ \A t \in ApTasks : WF_vars(ApSteps(t))
    /\ \A t \in DrTasks : WF_vars(DrSteps(t))
    /\ WF_vars(handler_return)
    /\ WF_vars(drain_return)

Fairness == FairTasks /\ WF_vars(CleanerSteps)

SpecCleanerFair == SpecCleaner /\ Fairness

\* an event source whose failing answers are not limited: it may go on
\* answering with FloodWait (or any other error) for ever
event_source_keeps_failing ==
    /\ faultsLeft < MaxFaults
    /\ faultsLeft' = MaxFaults
    /\ UNCHANGED <<config, USER_DATABASE, PENDING_REQUESTS, PROCESSED_CHATS,
                   cleaner_task_started, cleanerTasks, main, pending, ap, dr, sweep, bc,
                   eventsLeft>>

\* the handlers and drains during the cleaner's initial sleep, under such an
\* event source
NextStorm ==
    \/ app_start
    \/ start_bot_and_tasks
    \/ ApprovalSteps
    \/ RequestEvents
    \/ event_source_keeps_failing

SpecStorm == Init /\ [][NextStorm]_vars /\ FairTasks

\* the behaviours up to the end of the cleaner's initial sleep (asyncio.sleep(10))
NextHandlers ==
    \/ app_start
    \/ start_bot_and_tasks
    \/ ApprovalSteps
    \/ RequestEvents
    \/ BroadcastSteps

SpecHandlers == InitWith(MaxHandlerEvents) /\ [][NextHandlers]_vars

(***************************************************************************)
(* Properties                                                              *)
(***************************************************************************)

\* C1: one invocation of approve_request_with_dm makes at most two approval
\* calls: after a rate-limited first call it sleeps and calls once more, and it
\* does not call again when the retry is rate-limited too.
C1_AtMostTwoApprovalCalls ==
    \A t \in ApTasks : ap[t].calls <= 2

\* C2: an invocation whose approval call failed with permission denied has
\* returned failure, has not added the user to USER_DATABASE, and the ledger
\* PENDING_REQUESTS still holds the entry of its (chat, user).
C2_DeniedKeepsLedgerEntry ==
    \A t \in ApTasks :
        (ap[t].pc = "done" /\ ap[t].outcome = "denied") =>
            /\ ap[t].result = FALSE
            /\ ~ap[t].added
            /\ <<ap[t].chat, ap[t].user>> \in PENDING_REQUESTS

\* C3: the step in which the welcome notification fails (unreachable user, rate
\* limit, any other error) after a successful approval removes nobody from
\* USER_DATABASE, and the invocation returns the Approved outcome, True.
C3_NotifyFailureKeepsApproval ==
    [][\A t \in ApTasks :
          (ap[t].pc = "dm" /\ ap'[t].pc = "done" /\ ap'[t].dm # "ok") =>
              /\ USER_DATABASE' = USER_DATABASE
              /\ ap'[t].outcome = "approved"
              /\ ap'[t].result = TRUE]_vars

\* C3 witness: an invocation has returned after its notification failed as
\* unreachable, and the approved user is tracked.
C3_Witness ==
    \E t \in ApTasks :
        /\ ap[t].pc = "done"
        /\ ap[t].dm = "unreachable"
        /\ ap[t].result = TRUE
        /\ ap[t].user \in USER_DATABASE

\* C4: with a target chat configured, no approval call is ever made for another
\* chat, whichever trigger started the invocation.
C4_OnlyTargetChatApproved ==
    AUTO_APPROVE_CHAT_ID # None =>
        \A t \in ApTasks : ap[t].calls > 0 => ap[t].chat = AUTO_APPROVE_CHAT_ID

\* C5: with a target chat configured, in every cycle the sweep enumerates the
\* pending requests of that chat only.
C5_SweepQueriesOnlyTarget ==
    AUTO_APPROVE_CHAT_ID # None =>
        /\ sweep.queried \subseteq {AUTO_APPROVE_CHAT_ID}
        /\ sweep.chats_to_check \subseteq {AUTO_APPROVE_CHAT_ID}
        /\ dr["sweep"].pc # "idle" => dr["sweep"].chat = AUTO_APPROVE_CHAT_ID

\* C5 witness: the sweep has enumerated the target chat in its second cycle.
C5_Witness ==
    /\ AUTO_APPROVE_CHAT_ID # None
    /\ sweep.cycle = 2
    /\ sweep.queried = {AUTO_APPROVE_CHAT_ID}

\* C6: without a target chat, a finished cycle (during which no handler drained
\* a chat) has enumerated exactly the channels and supergroups among the dialogs
\* discovery returned in that cycle.
C6_SweepQueriesEveryDiscovered ==
    (AUTO_APPROVE_CHAT_ID = None /\ sweep.pc = "sleep" /\ sweep.alone) =>
        sweep.queried = {c \in sweep.dialogs : ChatKind[c] \in {"channel", "supergroup"}}

\* C7: a finished broadcast over K users in which M sends failed as unreachable
\* and every other send succeeded (at once or on the retry), and during which
\* nobody else was added, reports sent = K - M and leaves K - M tracked users.
C7_BroadcastPrunesUnreachable ==
    (bc.pc = "done" /\ bc.clean /\ bc.quiet) =>
        /\ bc.sent = bc.K - bc.M
        /\ Cardinality(USER_DATABASE) = bc.K - bc.M

\* C8: a step removes a user from USER_DATABASE only when it is a send to that
\* user that failed with an unreachable-class error.
C8_RemovedOnlyWhenUnreachable ==
    [][\A u \in Users :
          (u \in USER_DATABASE /\ u \notin USER_DATABASE') =>
              bc'.last = <<u, "unreachable">>]_vars

\* C9: a /broadcast is accepted, and sends, only for a configured developer who
\* is the caller; any other call is rejected in a step that sends nothing and
\* leaves USER_DATABASE unchanged.
C9_BroadcastOnlyByDeveloper ==
    [][/\ (bc.pc = "idle" /\ bc'.pc # "idle") =>
              \/ DEVELOPER_ID # None /\ bc'.caller = DEVELOPER_ID
              \/ /\ bc'.pc = "rejected"
                 /\ bc'.last = <<0, "none">>
                 /\ USER_DATABASE' = USER_DATABASE
       /\ bc'.last # bc.last =>
              \/ bc'.pc = "idle"
              \/ DEVELOPER_ID # None /\ bc'.caller = DEVELOPER_ID]_vars

\* C9 witness: a caller who is not the developer has been rejected while there
\* were tracked users to send to.
C9_Witness ==
    /\ bc.pc = "rejected"
    /\ bc.caller # DEVELOPER_ID
    /\ USER_DATABASE # {}

\* C10: the cleaner task is created at most once, and a cycle starts only when
\* the initial sleep or the sleep after the previous cycle has elapsed.
C10_OneCycleAtATime ==
    [][/\ cleanerTasks' <= 1
       /\ (sweep.pc # "cycle_start" /\ sweep'.pc = "cycle_start") =>
              sweep.pc \in {"initial_sleep", "sleep"}
       /\ sweep'.cycle # sweep.cycle =>
              (sweep.pc = "cycle_start" /\ sweep'.cycle = sweep.cycle + 1)]_vars

\* C10 witness: the second cycle is in progress and one cleaner task exists.
C10_Witness ==
    /\ cleanerTasks = 1
    /\ sweep.cycle = 2
    /\ sweep.pc = "draining"

\* C11: when the drain of one candidate chat ends in an RPCError or another
\* exception, the cycle goes on: a finished cycle in which a drain failed (one
\* that started with no chat marked and during which no handler drained a chat)
\* has enumerated every candidate chat, and after a failed drain the cleaner
\* always reaches the start of its next cycle.
C11_ErrorDoesNotAbortCycle ==
    /\ []((sweep.pc = "sleep" /\ sweep.failed # {} /\ sweep.alone /\ sweep.fresh) =>
            sweep.queried = CandidateChats(AUTO_APPROVE_CHAT_ID, sweep.dialogs))
    /\ (sweep.pc = "draining" /\ dr["sweep"].ended = "error") ~> (sweep.pc = "cycle_start")

\* C11 witness: in a cycle in which the drain of one chat failed, the sweep has
\* enumerated another chat afterwards.
C11_Witness ==
    /\ sweep.failed # {}
    /\ sweep.after \ sweep.failed # {}
    /\ sweep.alone /\ sweep.fresh

\* a chat the sweep visits: the configured chat, or any channel or supergroup
\* when none is configured
Eligible(c) == AUTO_APPROVE_CHAT_ID = None \/ c = AUTO_APPROVE_CHAT_ID

\* an invocation for (c, u) has ended in a non-success outcome and the request
\* is pending; the event source accepts every call from now on, delivers no
\* further event, no handler is draining, and the cleaner has two cycles to run
\* (a mark left in PROCESSED_CHATS by a handler's drain makes one cycle skip c)
C12_Failed(c, u) ==
    /\ \E t \in ApTasks :
          /\ ap[t].pc = "done"
          /\ ap[t].chat = c /\ ap[t].user = u
          /\ ap[t].outcome \in {"denied", "error"}
    /\ <<c, u>> \in pending
    /\ Eligible(c)
    /\ faultsLeft = 0
    /\ eventsLeft = 0
    /\ dr["drain"].pc = "idle"
    /\ sweep.cycle + 2 <= MaxCycles

\* C12: an approval call that ends in a non-success outcome leaves the request
\* pending; a request leaves the pending ones only by an approval that adds its
\* user to USER_DATABASE; and once the event source accepts, the sweep's later
\* cycles approve every pending request of the eligible chats.
C12_FailedRequestRetried ==
    /\ [][\A t \in ApTasks :
             (ap[t].pc = "call" /\ ap'[t].pc = "done"
                /\ ap'[t].outcome \in {"denied", "error"}
                /\ <<ap[t].chat, ap[t].user>> \in pending) =>
                  <<ap[t].chat, ap[t].user>> \in pending']_vars
    /\ [][\A c \in JoinChats, u \in Users :
             (<<c, u>> \in pending /\ <<c, u>> \notin pending') =>
                  u \in USER_DATABASE']_vars
    /\ (\E c \in JoinChats, u \in Users : C12_Failed(c, u))
          ~> (\A c \in JoinChats, u \in Users : <<c, u>> \in pending => ~Eligible(c))

\* C12 witness: the live handler's attempt for a request was denied, and the
\* sweep has approved that request afterwards.
C12_Witness ==
    /\ ap["handler"].pc = "done"
    /\ ap["handler"].outcome = "denied"
    /\ ap["sweep"].chat = ap["handler"].chat
    /\ ap["sweep"].user = ap["handler"].user
    /\ ap["sweep"].added
    /\ ap["handler"].user \in USER_DATABASE
    /\ sweep.cycle >= 1

\* C13: an approval call for (chat, user) changes USER_DATABASE by adding user
\* and nothing else, and leaves it as it is when user is tracked already: a
\* second invocation for the same pair does not change the set or its size.
C13_IdempotentInsert ==
    [][\A t \in ApTasks :
          (ap[t].pc = "call" /\ ap'[t].pc # "call") =>
              /\ USER_DATABASE' \subseteq USER_DATABASE \cup {ap[t].user}
              /\ USER_DATABASE \subseteq USER_DATABASE'
              /\ Cardinality(USER_DATABASE') <= Cardinality(USER_DATABASE) + 1
              /\ ap[t].user \in USER_DATABASE => USER_DATABASE' = USER_DATABASE]_vars

\* C13 witness: the handler's invocation for a pair has ended Approved, and a
\* second invocation for the same pair (the user asked again, a drain picked
\* the request up) has approved a user who was tracked already.
C13_Witness ==
    /\ ap["handler"].pc = "done"
    /\ ap["handler"].added
    /\ ap["drain"].chat = ap["handler"].chat
    /\ ap["drain"].user = ap["handler"].user
    /\ ap["drain"].added
    /\ ap["drain"].known
    /\ Cardinality(USER_DATABASE) = 1

\* C14: an invocation whose welcome send was answered with a rate limit has
\* made exactly two sends (the send and one retry) when it returns.
C14_NotifyRetriesOnce ==
    \A t \in ApTasks :
        (ap[t].pc = "done" /\ ap[t].dm = "flood") => ap[t].dms = 2

\* C15: every invocation of approve_request_with_dm and every drain by
\* clear_pending_requests returns, whatever the event source answers, also
\* when it answers every call with a rate limit.
C15_WorkflowTerminates ==
    /\ (ap["handler"].pc = "call") ~> (ap["handler"].pc = "done")
    /\ (dr["drain"].pc = "entry") ~> (dr["drain"].pc = "done")

\* C16: PROCESSED_CHATS is empty when a cycle starts on its candidate chats,
\* and the cycle skips a candidate only if the sweep itself has enumerated it
\* in this cycle.
C16_GuardEmptyAtCycleStart ==
    [][/\ (sweep.pc = "cycle_start" /\ sweep'.pc = "loop") => PROCESSED_CHATS = {}
       /\ \A c \in Chats :
             (sweep.pc = "loop" /\ sweep'.pc = "loop"
                /\ c \in sweep.chats_to_check /\ c \notin sweep'.chats_to_check) =>
                  c \in sweep.queried]_vars

\* C17: while an approval call for (chat, user) is in flight the ledger
\* PENDING_REQUESTS holds the entry of that pair, and once the approval has
\* succeeded it holds none.
C17_LedgerTracksInFlight ==
    \A t \in ApTasks :
        /\ ap[t].pc = "call" => <<ap[t].chat, ap[t].user>> \in PENDING_REQUESTS
        /\ (ap[t].pc \in {"dm", "done"} /\ ap[t].added) =>
              <<ap[t].chat, ap[t].user>> \notin PENDING_REQUESTS

\* the tasks of the sweep and of the live handler
Racers == {"sweep", "handler"}

\* C18: when the sweep and the live handler hold the same pending (chat, user)
\* and one of them has approved it, the other one's approval call ends its
\* invocation with False, or is rate-limited and tried again: it sends no
\* notification, changes nothing in USER_DATABASE, and the user is tracked.
C18_RaceIsSafe ==
    [][\A t \in Racers : \A o \in Racers \ {t} :
          (/\ ap[t].pc = "call" /\ ap'[t].pc # "call"
           /\ ap[o].chat = ap[t].chat /\ ap[o].user = ap[t].user
           /\ ap[o].added
           /\ <<ap[t].chat, ap[t].user>> \notin pending) =>
              /\ ap'[t].pc \in {"done", "flood_sleep"}
              /\ ap'[t].pc = "done" => (ap'[t].result = FALSE /\ ap'[t].dms = 0)
              /\ ~ap'[t].added
              /\ USER_DATABASE' = USER_DATABASE
              /\ ap[t].user \in USER_DATABASE]_vars

\* C18 witness: the sweep and the live handler both took the same request; one
\* approved it, the other ended with the request gone and sent no notification.
C18_Witness ==
    \E t \in Racers : \E o \in Racers \ {t} :
        /\ ap[t].pc = "done" /\ ap[t].outcome = "gone" /\ ap[t].dms = 0
        /\ ap[o].pc = "done" /\ ap[o].outcome = "approved"
        /\ ap[o].chat = ap[t].chat /\ ap[o].user = ap[t].user
        /\ ap[t].user \in USER_DATABASE
        /\ <<ap[t].chat, ap[t].user>> \notin pending

\* C19: a broadcast sends only to the users of the copy of USER_DATABASE it
\* made when its loop began: every one of them is sent to once, and a second
\* time only as the retry after a rate limit; a user added meanwhile is not
\* sent to, and the copy does not change.
C19_BroadcastUsesSnapshot ==
    /\ []((bc.pc \in {"send", "retry_sleep", "done"}) =>
            /\ bc.todo \subseteq bc.snapshot
            /\ \A u \in Users \ bc.snapshot : bc.attempts[u] = 0
            /\ \A u \in bc.snapshot \ bc.todo : bc.attempts[u] \in {1, 2}
            /\ \A u \in bc.todo : bc.attempts[u] = 0)
    /\ [][\A u \in Users :
             (bc'.pc # "idle" /\ bc'.attempts[u] # bc.attempts[u]) =>
                 /\ u \in bc.snapshot
                 /\ bc'.snapshot = bc.snapshot
                 /\ bc'.attempts[u] = bc.attempts[u] + 1
                 /\ bc'.attempts[u] = 2 =>
                       (bc.pc = "retry_sleep" /\ bc.uid = u /\ bc.last = <<u, "flood">>)]_vars

\* C19 witness: a broadcast has finished; a user was added while it was
\* suspended and was not in its copy; a user of the copy was sent to twice.
C19_Witness ==
    /\ bc.pc = "done"
    /\ ~bc.quiet
    /\ bc.snapshot # {}
    /\ USER_DATABASE \ bc.snapshot # {}
    /\ \E u \in bc.snapshot : bc.attempts[u] = 2
    /\ \A u \in Users \ bc.snapshot : bc.attempts[u] = 0

\* C20: the count clear_pending_requests returns is the number of approval
\* calls that succeeded during the whole invocation, the re-entries after a
\* rate limit included.
C20_CountsEveryApproval ==
    \A t \in DrTasks :
        dr[t].pc = "done" => dr[t].result = dr[t].successes

\* the positions of clear_pending_requests past its PROCESSED_CHATS guard and
\* before its return: the pending requests of the chat are being enumerated
Enumerating == {"enum", "next", "approving", "flood_sleep"}

\* C21: the drain run by the sweep and a drain run by another trigger (/clear,
\* bot_added_to_chat, the startup cleanup) never enumerate the pending requests
\* of the same chat at the same time.
C21_NoOverlappingDrains ==
    ~(/\ dr["sweep"].pc \in Enumerating
      /\ dr["drain"].pc \in Enumerating
      /\ dr["sweep"].chat = dr["drain"].chat)

====
